---- MODULE Spec2Model ----
(***************************************************************************)
(* Model of the go-dbus-keyring client: the privileged operations          *)
(* (Item.Delete, Collection.Delete, Service.CreateCollection,              *)
(* Service.Lock, Service.Unlock), the prompt coordinator prompt.Prompt     *)
(* with its listener goroutine, and the godbus connection they share       *)
(* (match rules, registered signal channels, signal delivery, Close);      *)
(* and, under QuerySpec, the alias, enumeration, lookup and secret         *)
(* operations against the remote store.                                    *)
(***************************************************************************)
EXTENDS Integers, Sequences, FiniteSets, TLC

(* ------------------------------ bounds -------------------------------- *)

\* further completion events delivered to the connection: duplicates of a
\* completed prompt's event and events of prompts of other processes
MaxExtra == 1

\* entities in one remote enumeration (the service's collections, the
\* collection's items)
MaxList == 2

(* --------------------------- program constants ------------------------ *)

\* mutant: the result channel is unbuffered
ChCapUnbuffered == 1 - 1

\* prompt.go: ch := make(chan *dbus.Variant, 1)
ChCap == 1
\* prompt.go: sig := make(chan *dbus.Signal, 1)
SigCap == 1
\* the sentinel "no prompt required" object path
NoPrompt == "/"

\* the concurrent callers, each running one privileged operation
Callers == {1, 2}

PromptNames == <<"/prompt/1", "/prompt/2">>
\* the remote side never hands one prompt identifier to two concurrent calls
PromptOf(c) == PromptNames[c]
ForeignId == "/prompt/other"
PromptIds == {PromptOf(c) : c \in Callers}

Ops == {"ItemDelete", "CollectionDelete", "CreateCollection", "Lock", "Unlock"}

\* the value a nil slice / nil pointer has in Go
Nil == <<"nil">>
\* signal bodies: (dismissed, result) with the result variant holding an
\* object path or a value of another type, or a body of another shape
Malformed == <<"malformed">>
Bodies == {<<TRUE, "other">>, <<FALSE, "objpath">>, <<FALSE, "other">>, Malformed}

\* the body of the completion events of other processes' prompts
ForeignBody == <<FALSE, "objpath">>

\* the primary result of a trigger call (collection path / list of paths)
Primary(o) ==
  CASE o = "CreateCollection" -> "primaryPath"
    [] o \in {"Lock", "Unlock"} -> "primaryList"
    [] OTHER -> "none"

NoError == "nil"
NoValue == "none"
Result(v, e) == [val |-> v, err |-> e]
\* The five operations share one control flow (trigger call, sentinel test,
\* prompt.Prompt, receive) and differ in how they decode and what they
\* return: outcome[c][o] is what operation o returns to caller c.
Unset == [o \in Ops |-> Result("unset", "unset")]

\* dbus.ObjectPath("/"): the null identifier
NullPath == "/"
AliasNames == {"default"}
CollectionPaths == {"/collection/1", "/collection/2"}

\* type Secret struct { Session; Parameters; Value; ContentType }
Secret(s, p, v, t) == [session |-> s, parameters |-> p, value |-> v, contentType |-> t]
\* a nil *Secret
NilSecret == Secret("nil", "nil", "nil", "nil")

\* no call has returned a result the caller has yet to take
NoCall == [op |-> "none"]

VARIABLES
  pc,           \* caller position: idle, prompt, matched, registered, waiting, done
  path,         \* the prompt path the trigger call returned
  outcome,      \* what the public operation returned, per operation
  trigger,      \* the replies to the trigger calls the operation issued
  lpc,          \* listener position: none, loop, remove, close, done
  res,          \* the listener's local res
  ch,           \* the result channel ch of each wait
  nSent,        \* number of sends on ch so far
  sigBuf,       \* the buffer of each signal channel sig
  sigPend,      \* signals held by the transport's deferred deliveries
  sigClosed,    \* whether sig is closed
  signals,      \* signal channels registered on the connection
  matchRules,   \* match rules added on the bus
  connClosed,   \* the connection was closed
  panicked,     \* the process died of a runtime panic
  promptState,  \* remote prompt: free, pending, begun, completed
  promptBody,   \* body of the completion event of a prompt
  nExtra,       \* further completion events delivered so far
  handled,     \* remote side: callers whose object the trigger call's list named
  aliases,      \* remote side: the collection path each alias resolves to
  collections,  \* remote side: labels of the service's Collections, in order
  items,        \* remote side: labels of the collection's Items, in order
  secret,       \* remote side: the secret stored in the item
  written,      \* the value and content type of the last successful write
  ret           \* the last query or secret operation: its inputs and result

promptVars == <<pc, path, outcome, trigger, lpc, res, ch, nSent, sigBuf, sigPend,
                sigClosed, signals, matchRules, connClosed, panicked,
                promptState, promptBody, nExtra, handled>>
queryVars == <<aliases, collections, items, secret, written, ret>>
vars == <<promptVars, queryVars>>

callerVars == <<pc, path, outcome, trigger>>
listenerVars == <<lpc, res, ch, nSent>>
chanVars == <<sigBuf, sigPend, sigClosed, signals>>
remoteVars == <<promptState, promptBody, nExtra, handled>>

Init ==
  /\ pc = [c \in Callers |-> "idle"]
  /\ path = [c \in Callers |-> "none"]
  /\ outcome = [c \in Callers |-> Unset]
  /\ trigger = [c \in Callers |-> <<>>]
  /\ lpc = [c \in Callers |-> "none"]
  /\ res = [c \in Callers |-> Nil]
  /\ ch = [c \in Callers |-> <<>>]
  /\ nSent = [c \in Callers |-> 0]
  /\ sigBuf = [c \in Callers |-> <<>>]
  /\ sigPend = [c \in Callers |-> {}]
  /\ sigClosed = [c \in Callers |-> FALSE]
  /\ signals = {}
  /\ matchRules = {}
  /\ connClosed = FALSE
  /\ panicked = FALSE
  /\ promptState = [p \in PromptIds |-> "free"]
  /\ promptBody = [p \in PromptIds |-> Nil]
  /\ nExtra = 0
  /\ handled = {}
  /\ aliases = [a \in AliasNames |-> NullPath]
  /\ collections = <<>>
  /\ items = <<>>
  /\ secret = NilSecret
  /\ written = NilSecret
  /\ ret = NoCall

(* ------------------------- the shared connection ---------------------- *)

Signal(p, b) == [path |-> p, body |-> b]

\* defaultSignalHandler.DeliverSignal: every registered channel gets the
\* signal, at once when its buffer has room, by a deferred delivery otherwise
DeliverTo(s) ==
  /\ sigBuf' = [c \in Callers |->
                  IF c \in signals /\ Len(sigBuf[c]) < SigCap
                    THEN Append(sigBuf[c], s) ELSE sigBuf[c]]
  /\ sigPend' = [c \in Callers |->
                  IF c \in signals /\ Len(sigBuf[c]) >= SigCap
                    THEN sigPend[c] \cup {s} ELSE sigPend[c]]

\* a deferred delivery completes once the channel has room
DeferredDeliver(c) ==
  /\ ~panicked
  /\ UNCHANGED queryVars
  /\ \E s \in sigPend[c] :
       /\ Len(sigBuf[c]) < SigCap
       /\ sigBuf' = [sigBuf EXCEPT ![c] = Append(@, s)]
       /\ sigPend' = [sigPend EXCEPT ![c] = @ \ {s}]
  /\ UNCHANGED <<callerVars, listenerVars, sigClosed, signals, matchRules,
                 connClosed, panicked, remoteVars>>

\* Conn.Close: the channels passed to Signal are closed, pending deliveries
\* are abandoned, every later call fails
CloseConn ==
  /\ ~panicked
  /\ UNCHANGED queryVars
  /\ ~connClosed
  /\ connClosed' = TRUE
  /\ sigClosed' = [c \in Callers |-> sigClosed[c] \/ c \in signals]
  /\ sigPend' = [c \in Callers |-> IF c \in signals THEN {} ELSE sigPend[c]]
  /\ signals' = {}
  /\ UNCHANGED <<callerVars, listenerVars, sigBuf, matchRules, panicked, remoteVars>>

(* --------------------------- the remote side -------------------------- *)

\* the remote side completes a prompt whose begin call it received and emits
\* Completed(dismissed, result) from the prompt's object path
RemoteComplete(p, b) ==
  /\ ~panicked
  /\ UNCHANGED queryVars
  /\ ~connClosed
  /\ promptState[p] = "begun"
  /\ promptState' = [promptState EXCEPT ![p] = "completed"]
  /\ promptBody' = [promptBody EXCEPT ![p] = b]
  /\ DeliverTo(Signal(p, b))
  /\ UNCHANGED <<callerVars, listenerVars, sigClosed, signals, matchRules,
                 connClosed, panicked, nExtra, handled>>

\* a completion event arrives a second time
RemoteDuplicate(p) ==
  /\ ~panicked
  /\ UNCHANGED queryVars
  /\ signals # {}
  /\ promptState[p] = "completed"
  /\ nExtra < MaxExtra
  /\ nExtra' = nExtra + 1
  /\ DeliverTo(Signal(p, promptBody[p]))
  /\ UNCHANGED <<callerVars, listenerVars, sigClosed, signals, matchRules,
                 connClosed, panicked, promptState, promptBody, handled>>

\* the completion event of a prompt no caller of this process waits for
ForeignComplete ==
  /\ ~panicked
  /\ UNCHANGED queryVars
  /\ signals # {}
  /\ nExtra < MaxExtra
  /\ nExtra' = nExtra + 1
  /\ DeliverTo(Signal(ForeignId, ForeignBody))
  /\ UNCHANGED <<callerVars, listenerVars, sigClosed, signals, matchRules,
                 connClosed, panicked, promptState, promptBody, handled>>

(* ------------------------- the prompt coordinator --------------------- *)

\* return nil, call.Err
TransportError(o) == Result(NoValue, "transport")

\* dbus.Store(res, &dismissed, &result) succeeds on a (bool, variant) body
StoreOk(r) == r # Nil /\ r # Malformed

\* mutant: the dismissed flag is not looked at
ChanValueIgnoresDismissed(r) ==
  IF ~StoreOk(r) THEN Nil ELSE <<"variant", r[2]>>

\* what the listener sends on ch: nil on a decode error and on dismissal,
\* the result variant otherwise
ChanValue(r) ==
  IF ~StoreOk(r) THEN Nil
  ELSE IF r[1] THEN Nil
  ELSE <<"variant", r[2]>>

\* mutant: the loop takes the first signal whatever its source
MatchesAny(s, p) == TRUE

\* if s.Path == p.path
Matches(s, p) == s.path = p

\* mutant: the error of AddMatchSignal is not looked at
AddMatchIgnoresError(c) ==
  /\ ~panicked
  /\ UNCHANGED queryVars
  /\ pc[c] = "prompt"
  /\ \/ /\ ~connClosed
        /\ matchRules' = matchRules \cup {path[c]}
     \/ UNCHANGED matchRules
  /\ pc' = [pc EXCEPT ![c] = "matched"]
  /\ UNCHANGED <<path, trigger, outcome, listenerVars, chanVars, connClosed,
                 panicked, remoteVars>>

\* p.obj.AddMatchSignal(PromptInterface, "Completed")
AddMatch(c) ==
  /\ ~panicked
  /\ UNCHANGED queryVars
  /\ pc[c] = "prompt"
  /\ \/ /\ ~connClosed
        /\ matchRules' = matchRules \cup {path[c]}
        /\ pc' = [pc EXCEPT ![c] = "matched"]
        /\ UNCHANGED outcome
     \/ /\ pc' = [pc EXCEPT ![c] = "done"]
        /\ outcome' = [outcome EXCEPT ![c] = [o \in Ops |-> TransportError(o)]]
        /\ UNCHANGED matchRules
  /\ UNCHANGED <<path, trigger, listenerVars, chanVars, connClosed, panicked, remoteVars>>

\* mutant: the channel is made and the listener started, but the channel is
\* not passed to conn.Signal
RegisterWithoutSignal(c) ==
  /\ ~panicked
  /\ UNCHANGED queryVars
  /\ pc[c] = "matched"
  /\ lpc' = [lpc EXCEPT ![c] = "loop"]
  /\ pc' = [pc EXCEPT ![c] = "registered"]
  /\ UNCHANGED <<path, trigger, outcome, res, ch, nSent, chanVars,
                 matchRules, connClosed, panicked, remoteVars>>

\* ch, sig := make(...); p.conn.Signal(sig); go func() { ... }()
Register(c) ==
  /\ ~panicked
  /\ UNCHANGED queryVars
  /\ pc[c] = "matched"
  /\ signals' = IF connClosed THEN signals ELSE signals \cup {c}
  /\ lpc' = [lpc EXCEPT ![c] = "loop"]
  /\ pc' = [pc EXCEPT ![c] = "registered"]
  /\ UNCHANGED <<path, trigger, outcome, res, ch, nSent, sigBuf, sigPend,
                 sigClosed, matchRules, connClosed, panicked, remoteVars>>

\* mutant: the begin call is issued before the signal channel is registered
BeginBeforeRegister(c) ==
  /\ ~panicked
  /\ UNCHANGED queryVars
  /\ pc[c] = "matched"
  /\ ~connClosed
  /\ promptState' = [promptState EXCEPT ![path[c]] = "begun"]
  /\ pc' = [pc EXCEPT ![c] = "waiting"]
  /\ UNCHANGED <<path, trigger, outcome, listenerVars, chanVars, matchRules, connClosed,
                 panicked, promptBody, nExtra, handled>>

\* p.obj.Call(promptMethodPrompt, 0, windowID)
Begin(c) ==
  /\ ~panicked
  /\ UNCHANGED queryVars
  /\ pc[c] = "registered"
  /\ \/ /\ ~connClosed
        /\ promptState' = [promptState EXCEPT ![path[c]] = "begun"]
        /\ pc' = [pc EXCEPT ![c] = "waiting"]
        /\ UNCHANGED outcome
     \/ /\ pc' = [pc EXCEPT ![c] = "done"]
        /\ outcome' = [outcome EXCEPT ![c] = [o \in Ops |-> TransportError(o)]]
        /\ UNCHANGED promptState
  /\ UNCHANGED <<path, trigger, listenerVars, chanVars, matchRules, connClosed,
                 panicked, promptBody, nExtra, handled>>

\* mutant: the send is inside the loop and the loop goes on after a match
ListenerRecvNoBreak(c) ==
  /\ ~panicked
  /\ UNCHANGED queryVars
  /\ lpc[c] = "loop"
  /\ \/ /\ sigBuf[c] # <<>>
        /\ sigBuf' = [sigBuf EXCEPT ![c] = Tail(@)]
        /\ IF Matches(Head(sigBuf[c]), path[c])
             THEN /\ Len(ch[c]) < ChCap
                  /\ res' = [res EXCEPT ![c] = Head(sigBuf[c]).body]
                  /\ ch' = [ch EXCEPT ![c] = Append(@, ChanValue(Head(sigBuf[c]).body))]
                  /\ nSent' = [nSent EXCEPT ![c] = @ + 1]
                  /\ UNCHANGED lpc
             ELSE UNCHANGED <<res, ch, nSent, lpc>>
     \/ /\ sigBuf[c] = <<>>
        /\ sigClosed[c]
        /\ nSent[c] = 0
        /\ Len(ch[c]) < ChCap
        /\ ch' = [ch EXCEPT ![c] = Append(@, ChanValue(res[c]))]
        /\ nSent' = [nSent EXCEPT ![c] = @ + 1]
        /\ lpc' = [lpc EXCEPT ![c] = "remove"]
        /\ UNCHANGED <<res, sigBuf>>
  /\ UNCHANGED <<callerVars, sigPend, sigClosed, signals, matchRules,
                 connClosed, panicked, remoteVars>>

\* mutant: the break is outside the if, the loop ends on the first signal
ListenerRecvBreaksOnAny(c) ==
  /\ ~panicked
  /\ UNCHANGED queryVars
  /\ lpc[c] = "loop"
  /\ Len(ch[c]) < ChCap
  /\ \/ /\ sigBuf[c] # <<>>
        /\ sigBuf' = [sigBuf EXCEPT ![c] = Tail(@)]
        /\ LET r == IF Matches(Head(sigBuf[c]), path[c])
                      THEN Head(sigBuf[c]).body ELSE res[c]
           IN /\ res' = [res EXCEPT ![c] = r]
              /\ ch' = [ch EXCEPT ![c] = Append(@, ChanValue(r))]
     \/ /\ sigBuf[c] = <<>>
        /\ sigClosed[c]
        /\ ch' = [ch EXCEPT ![c] = Append(@, ChanValue(res[c]))]
        /\ UNCHANGED <<res, sigBuf>>
  /\ nSent' = [nSent EXCEPT ![c] = @ + 1]
  /\ lpc' = [lpc EXCEPT ![c] = "remove"]
  /\ UNCHANGED <<callerVars, sigPend, sigClosed, signals, matchRules,
                 connClosed, panicked, remoteVars>>

\* the listener goroutine up to its send on ch:
\*   for s := range sig { if s.Path == p.path { res = s.Body; break } }
\*   dbus.Store(res, &dismissed, &result); ch <- nil  or  ch <- &result
ListenerRecv(c) ==
  /\ ~panicked
  /\ UNCHANGED queryVars
  /\ lpc[c] = "loop"
  /\ \/ /\ sigBuf[c] # <<>>
        /\ sigBuf' = [sigBuf EXCEPT ![c] = Tail(@)]
        /\ IF Matches(Head(sigBuf[c]), path[c])
             THEN /\ Len(ch[c]) < ChCap
                  /\ res' = [res EXCEPT ![c] = Head(sigBuf[c]).body]
                  /\ ch' = [ch EXCEPT ![c] = Append(@, ChanValue(Head(sigBuf[c]).body))]
                  /\ nSent' = [nSent EXCEPT ![c] = @ + 1]
                  /\ lpc' = [lpc EXCEPT ![c] = "remove"]
             ELSE UNCHANGED <<res, ch, nSent, lpc>>
     \/ /\ sigBuf[c] = <<>>
        /\ sigClosed[c]
        /\ Len(ch[c]) < ChCap
        /\ ch' = [ch EXCEPT ![c] = Append(@, ChanValue(res[c]))]
        /\ nSent' = [nSent EXCEPT ![c] = @ + 1]
        /\ lpc' = [lpc EXCEPT ![c] = "remove"]
        /\ UNCHANGED <<res, sigBuf>>
  /\ UNCHANGED <<callerVars, sigPend, sigClosed, signals, matchRules,
                 connClosed, panicked, remoteVars>>

\* mutant: the channel is closed without being deregistered
ListenerRemoveSkipped(c) ==
  /\ ~panicked
  /\ UNCHANGED queryVars
  /\ lpc[c] = "remove"
  /\ lpc' = [lpc EXCEPT ![c] = "close"]
  /\ UNCHANGED <<callerVars, res, ch, nSent, chanVars, matchRules,
                 connClosed, panicked, remoteVars>>

\* defer p.conn.RemoveSignal(sig)
ListenerRemove(c) ==
  /\ ~panicked
  /\ UNCHANGED queryVars
  /\ lpc[c] = "remove"
  /\ IF connClosed
       THEN UNCHANGED <<signals, sigPend>>
       ELSE /\ signals' = signals \ {c}
            /\ sigPend' = [sigPend EXCEPT ![c] = {}]
  /\ lpc' = [lpc EXCEPT ![c] = "close"]
  /\ UNCHANGED <<callerVars, res, ch, nSent, sigBuf, sigClosed, matchRules,
                 connClosed, panicked, remoteVars>>

\* defer close(sig): closing a closed channel panics
ListenerClose(c) ==
  /\ ~panicked
  /\ UNCHANGED queryVars
  /\ lpc[c] = "close"
  /\ panicked' = sigClosed[c]
  /\ sigClosed' = [sigClosed EXCEPT ![c] = TRUE]
  /\ lpc' = [lpc EXCEPT ![c] = "done"]
  \* the goroutine held the last reference to sig
  /\ sigBuf' = [sigBuf EXCEPT ![c] = <<>>]
  /\ UNCHANGED <<callerVars, res, ch, nSent, sigPend, signals,
                 matchRules, connClosed, remoteVars>>

(* ------------------------ the privileged operations ------------------- *)

\* mutant: the sentinel is not tested
NeedsPromptAlways(p) == TRUE

\* if promptPath != "/"
NeedsPrompt(p) == p # NoPrompt

\* the error a nil result gives: Collection.Delete words it differently
DismissedError(o) ==
  IF o = "CollectionDelete" THEN "prompted dismissed" ELSE "prompt dismissed"

IsPromptDismissed(e) == e \in {"prompt dismissed", "prompted dismissed"}

\* GetCollection(conn, collectionPath): one label read validates the handle
GetCollection(cp, labelOk) ==
  IF labelOk THEN Result(cp, NoError) ELSE Result(NoValue, "transport")

\* what operation o returns when the trigger call asked for no prompt
Direct(o, labelOk) ==
  CASE o = "CreateCollection" -> GetCollection(Primary(o), labelOk)
    [] o \in {"Lock", "Unlock"} -> Result(Primary(o), NoError)
    [] OTHER -> Result(NoValue, NoError)

\* mutant: the deletes look at the delivered value
AfterPromptDeleteNeedsPath(o, v, labelOk) ==
  CASE o = "CreateCollection" ->
         IF v = Nil THEN Result(NoValue, DismissedError(o))
         ELSE IF v[2] = "objpath" THEN GetCollection("deliveredPath", labelOk)
         ELSE Result(NoValue, "invalid type")
    [] o \in {"Lock", "Unlock"} ->
         IF v = Nil THEN Result(Primary(o), DismissedError(o))
         ELSE Result(Primary(o), NoError)
    [] OTHER ->
         IF v = Nil THEN Result(NoValue, DismissedError(o))
         ELSE IF v[2] = "objpath" THEN Result(NoValue, NoError)
         ELSE Result(NoValue, "invalid type")

\* mutant: collection creation keeps the trigger call's primary path
AfterPromptKeepsPrimary(o, v, labelOk) ==
  CASE o = "CreateCollection" ->
         IF v = Nil THEN Result(NoValue, DismissedError(o))
         ELSE IF v[2] = "objpath" THEN GetCollection(Primary(o), labelOk)
         ELSE Result(NoValue, "invalid type")
    [] o \in {"Lock", "Unlock"} ->
         IF v = Nil THEN Result(Primary(o), DismissedError(o))
         ELSE Result(Primary(o), NoError)
    [] OTHER ->
         IF v = Nil THEN Result(NoValue, DismissedError(o))
         ELSE Result(NoValue, NoError)

\* mutant: a delivered value of another type falls back to the primary path
AfterPromptFallsBack(o, v, labelOk) ==
  CASE o = "CreateCollection" ->
         IF v = Nil THEN Result(NoValue, DismissedError(o))
         ELSE IF v[2] = "objpath" THEN GetCollection("deliveredPath", labelOk)
         ELSE GetCollection(Primary(o), labelOk)
    [] o \in {"Lock", "Unlock"} ->
         IF v = Nil THEN Result(Primary(o), DismissedError(o))
         ELSE Result(Primary(o), NoError)
    [] OTHER ->
         IF v = Nil THEN Result(NoValue, DismissedError(o))
         ELSE Result(NoValue, NoError)

\* what operation o returns after result := <-res
AfterPrompt(o, v, labelOk) ==
  CASE o = "CreateCollection" ->
         IF v = Nil THEN Result(NoValue, DismissedError(o))
         ELSE IF v[2] = "objpath" THEN GetCollection("deliveredPath", labelOk)
         ELSE Result(NoValue, "invalid type")
    [] o \in {"Lock", "Unlock"} ->
         IF v = Nil THEN Result(Primary(o), DismissedError(o))
         ELSE Result(Primary(o), NoError)
    [] OTHER ->
         IF v = Nil THEN Result(NoValue, DismissedError(o))
         ELSE Result(NoValue, NoError)

\* item.Unlock on what service.Unlock returned: the list is dropped, the
\* boolean says only whether there was an error
ItemUnlock(r) ==
  IF r.err # NoError THEN Result(FALSE, r.err) ELSE Result(TRUE, NoError)

\* call.Store(...) fails on a reply of another shape
DecodeError(o) == Result(NoValue, "decode")

\* mutant: one prompt handle is made once and used by every call
GetPromptShared(p) == [path |-> PromptNames[1]]

\* GetPrompt(conn, path): a handle for the prompt at path
GetPrompt(p) == [path |-> p]

\* mutant: a trigger call that fails is issued once more
TriggerRetries(c, reply, pp, labelOk, inList) ==
  /\ ~panicked
  /\ UNCHANGED queryVars
  /\ pc[c] = "idle"
  /\ connClosed => reply = "error"
  /\ trigger' = [trigger EXCEPT ![c] = Append(@, reply)]
  /\ IF reply = "error"
       THEN /\ IF trigger[c] = <<>>
                 THEN UNCHANGED <<pc, outcome>>
                 ELSE /\ pc' = [pc EXCEPT ![c] = "done"]
                      /\ outcome' = [outcome EXCEPT ![c] =
                                       [o \in Ops |-> TransportError(o)]]
            /\ UNCHANGED <<path, promptState>>
     ELSE IF reply = "badshape"
       THEN /\ pc' = [pc EXCEPT ![c] = "done"]
            /\ outcome' = [outcome EXCEPT ![c] = [o \in Ops |-> DecodeError(o)]]
            /\ UNCHANGED <<path, promptState>>
     ELSE /\ path' = [path EXCEPT ![c] =
                         IF NeedsPrompt(pp) THEN GetPrompt(pp).path ELSE pp]
          /\ IF NeedsPrompt(pp)
               THEN /\ pc' = [pc EXCEPT ![c] = "prompt"]
                    /\ promptState' = [p \in PromptIds |->
                                         IF p = pp THEN "pending" ELSE promptState[p]]
                    /\ UNCHANGED outcome
               ELSE /\ pc' = [pc EXCEPT ![c] = "done"]
                    /\ outcome' = [outcome EXCEPT ![c] =
                                     [o \in Ops |-> Direct(o, labelOk)]]
                    /\ UNCHANGED promptState
  /\ (reply # "ok" \/ NeedsPrompt(pp)) => ~inList
  /\ handled' = IF inList THEN handled \cup {c} ELSE handled
  /\ UNCHANGED <<listenerVars, chanVars, matchRules, connClosed, panicked,
                 promptBody, nExtra>>

\* the trigger call of a privileged operation and the decoding of its reply;
\* inList: the reply's list names the caller's object (handled without prompt)
Trigger(c, reply, pp, labelOk, inList) ==
  /\ ~panicked
  /\ UNCHANGED queryVars
  /\ pc[c] = "idle"
  /\ connClosed => reply = "error"
  /\ trigger' = [trigger EXCEPT ![c] = Append(@, reply)]
  /\ IF reply = "error"
       THEN /\ pc' = [pc EXCEPT ![c] = "done"]
            /\ outcome' = [outcome EXCEPT ![c] = [o \in Ops |-> TransportError(o)]]
            /\ UNCHANGED <<path, promptState>>
     ELSE IF reply = "badshape"
       THEN /\ pc' = [pc EXCEPT ![c] = "done"]
            /\ outcome' = [outcome EXCEPT ![c] = [o \in Ops |-> DecodeError(o)]]
            /\ UNCHANGED <<path, promptState>>
     ELSE /\ path' = [path EXCEPT ![c] =
                         IF NeedsPrompt(pp) THEN GetPrompt(pp).path ELSE pp]
          /\ IF NeedsPrompt(pp)
               THEN /\ pc' = [pc EXCEPT ![c] = "prompt"]
                    /\ promptState' = [p \in PromptIds |->
                                         IF p = pp THEN "pending" ELSE promptState[p]]
                    /\ UNCHANGED outcome
               ELSE /\ pc' = [pc EXCEPT ![c] = "done"]
                    /\ outcome' = [outcome EXCEPT ![c] =
                                     [o \in Ops |-> Direct(o, labelOk)]]
                    /\ UNCHANGED promptState
  /\ (reply # "ok" \/ NeedsPrompt(pp)) => ~inList
  /\ handled' = IF inList THEN handled \cup {c} ELSE handled
  /\ UNCHANGED <<listenerVars, chanVars, matchRules, connClosed, panicked,
                 promptBody, nExtra>>

\* mutant: the receive gives up when the channel holds no value
CallerRecvTimesOut(c, labelOk) ==
  /\ ~panicked
  /\ UNCHANGED queryVars
  /\ pc[c] = "waiting"
  /\ connClosed => ~labelOk
  /\ ch' = [ch EXCEPT ![c] = IF @ = <<>> THEN @ ELSE Tail(@)]
  /\ outcome' = [outcome EXCEPT ![c] =
                   [o \in Ops |->
                      AfterPrompt(o, IF ch[c] = <<>> THEN Nil ELSE Head(ch[c]),
                                  labelOk)]]
  /\ pc' = [pc EXCEPT ![c] = "done"]
  /\ UNCHANGED <<path, trigger, lpc, res, nSent, chanVars, matchRules,
                 connClosed, panicked, remoteVars>>

\* result := <-res and what follows it
CallerRecv(c, labelOk) ==
  /\ ~panicked
  /\ UNCHANGED queryVars
  /\ pc[c] = "waiting"
  /\ ch[c] # <<>>
  /\ connClosed => ~labelOk
  /\ ch' = [ch EXCEPT ![c] = Tail(@)]
  /\ outcome' = [outcome EXCEPT ![c] =
                   [o \in Ops |-> AfterPrompt(o, Head(ch[c]), labelOk)]]
  /\ pc' = [pc EXCEPT ![c] = "done"]
  /\ UNCHANGED <<path, trigger, lpc, res, nSent, chanVars, matchRules,
                 connClosed, panicked, remoteVars>>

(* ------------------------------ the system ---------------------------- *)

Next ==
  \/ \E c \in Callers, reply \in {"error", "badshape", "ok"} :
       \E pp \in {NoPrompt, PromptOf(c)}, labelOk, inList \in BOOLEAN :
         Trigger(c, reply, pp, labelOk, inList)
  \/ \E c \in Callers : AddMatch(c)
  \/ \E c \in Callers : Register(c)
  \/ \E c \in Callers : Begin(c)
  \/ \E c \in Callers : ListenerRecv(c)
  \/ \E c \in Callers : ListenerRemove(c)
  \/ \E c \in Callers : ListenerClose(c)
  \/ \E c \in Callers, labelOk \in BOOLEAN : CallerRecv(c, labelOk)
  \/ \E c \in Callers : DeferredDeliver(c)
  \/ \E p \in PromptIds, b \in Bodies : RemoteComplete(p, b)
  \/ \E p \in PromptIds : RemoteDuplicate(p)
  \/ ForeignComplete
  \/ CloseConn

Spec == Init /\ [][Next]_vars

\* the Go scheduler runs every runnable goroutine: the listener, the blocked
\* caller once ch holds a value, the transport's deferred deliveries
Fairness ==
  \A c \in Callers :
    /\ WF_vars(ListenerRecv(c))
    /\ WF_vars(ListenerRemove(c))
    /\ WF_vars(ListenerClose(c))
    /\ WF_vars(DeferredDeliver(c))
    /\ WF_vars(\E labelOk \in BOOLEAN : CallerRecv(c, labelOk))

LiveSpec == Init /\ [][Next]_vars /\ Fairness

(* ------------------- aliases, enumerations and lookups ---------------- *)

\* what a query returned, with the inputs it ran on
Call(op, in, val, err) == [op |-> op, in |-> in, val |-> val, err |-> err]

\* mutant: the null identifier is returned like any other
ReadAliasNoSentinel(reply, p) ==
  IF reply = "error" THEN Result("", "transport")
  ELSE IF reply = "badshape" THEN Result("", "decode")
  ELSE Result(p, NoError)

\* service.ReadAlias: the call, the decoding of its reply, the test for "/"
ReadAlias(reply, p) ==
  IF reply = "error" THEN Result("", "transport")
  ELSE IF reply = "badshape" THEN Result("", "decode")
  ELSE IF p = NullPath THEN Result(p, "unknown alias")
  ELSE Result(p, NoError)

CallReadAlias(name, reply) ==
  /\ ret.op = "none"
  /\ LET r == ReadAlias(reply, aliases[name])
     IN ret' = Call("ReadAlias", [name |-> name, reply |-> reply], r.val, r.err)
  /\ UNCHANGED <<promptVars, aliases, collections, items, secret, written>>

\* service.SetAlias: one remote call, its error returned
CallSetAlias(name, p, reply) ==
  /\ ret.op = "none"
  /\ IF reply = "error"
       THEN /\ ret' = Call("SetAlias", [name |-> name, path |-> p], "", "transport")
            /\ UNCHANGED aliases
       ELSE /\ ret' = Call("SetAlias", [name |-> name, path |-> p], "", NoError)
            /\ aliases' = [aliases EXCEPT ![name] = p]
  /\ UNCHANGED <<promptVars, collections, items, secret, written>>

\* the remote call svc.obj.Call(serviceMethodSetAlias, 0, name, path)
SetAliasCall(name, p) == [method |-> "SetAlias", name |-> name, path |-> p]

\* mutant: the alias is set to the empty path
RemoveAliasEmptyPath(name) == <<SetAliasCall(name, "")>>

\* service.RemoveAlias: return svc.SetAlias(name, "/"); the remote calls it
\* issues
RemoveAlias(name) == <<SetAliasCall(name, "/")>>

\* the remote side's alias table after it served the calls
RECURSIVE AfterCalls(_, _)
AfterCalls(table, calls) ==
  IF calls = <<>> THEN table
  ELSE AfterCalls([table EXCEPT ![Head(calls).name] = Head(calls).path], Tail(calls))

CallRemoveAlias(name, reply) ==
  /\ ret.op = "none"
  /\ LET calls == RemoveAlias(name)
         in == [name |-> name, was |-> aliases[name], calls |-> calls]
     IN IF reply = "error"
          THEN /\ ret' = Call("RemoveAlias", in, "", "transport")
               /\ UNCHANGED aliases
          ELSE /\ ret' = Call("RemoveAlias", in, "", NoError)
               /\ aliases' = AfterCalls(aliases, calls)
  /\ UNCHANGED <<promptVars, collections, items, secret, written>>

\* mutant: the handle is returned without the label read
GetItemUnchecked(ip, labelOk) == Result(ip, NoError)

\* GetItem(conn, path): one label read validates the handle
GetItem(ip, labelOk) ==
  IF labelOk THEN Result(ip, NoError) ELSE Result(NoValue, "transport")

\* The identifier of an entity is its position in the remote enumeration.
\* Every query takes the identifier `bad` whose handle cannot be constructed
\* (its label read fails); 0 stands for none.
Ids(list) == [i \in 1..Len(list) |-> i]

\* mutant: an identifier that does not resolve is left out
ResolveItemsSkipsFailed(paths, bad, i, acc) ==
  Result(SelectSeq(paths, LAMBDA q : q # bad), NoError)

\* for i, it := range list { items[i], err = GetItem(c.conn, it); if err != nil
\* { return nil, err } }
RECURSIVE ResolveItems(_, _, _, _)
ResolveItems(paths, bad, i, acc) ==
  IF i > Len(paths) THEN Result(acc, NoError)
  ELSE IF GetItem(paths[i], paths[i] # bad).err # NoError
    THEN Result(<<>>, GetItem(paths[i], paths[i] # bad).err)
  ELSE ResolveItems(paths, bad, i + 1, Append(acc, paths[i]))

\* for i, p := range paths { col[i], err = GetCollection(svc.conn, p); ... }
RECURSIVE ResolveCollections(_, _, _, _)
ResolveCollections(paths, bad, i, acc) ==
  IF i > Len(paths) THEN Result(acc, NoError)
  ELSE IF GetCollection(paths[i], paths[i] # bad).err # NoError
    THEN Result(<<>>, GetCollection(paths[i], paths[i] # bad).err)
  ELSE ResolveCollections(paths, bad, i + 1, Append(acc, paths[i]))

\* collection.GetAllItems: read the Items property, resolve every identifier
GetAllItems(reply, bad) ==
  IF reply = "error" THEN Result(<<>>, "transport")
  ELSE IF reply = "badshape" THEN Result(<<>>, "invalid type")
  ELSE ResolveItems(Ids(items), bad, 1, <<>>)

\* service.GetAllCollections: read the Collections property, resolve all
GetAllCollections(reply, bad) ==
  IF reply = "error" THEN Result(<<>>, "transport")
  ELSE IF reply = "badshape" THEN Result(<<>>, "invalid type")
  ELSE ResolveCollections(Ids(collections), bad, 1, <<>>)

\* service.SearchItems: the remote side returns two lists of identifiers, here
\* the items before and from position k; both are resolved in turn
ServiceSearchItems(reply, k, bad) ==
  IF reply = "error" THEN Result(<<<<>>, <<>>>>, "transport")
  ELSE IF reply = "badshape" THEN Result(<<<<>>, <<>>>>, "decode")
  ELSE LET unlocked == ResolveItems(SubSeq(Ids(items), 1, k), bad, 1, <<>>)
           locked == ResolveItems(SubSeq(Ids(items), k + 1, Len(items)), bad, 1, <<>>)
       IN IF unlocked.err # NoError THEN Result(<<<<>>, <<>>>>, unlocked.err)
          ELSE IF locked.err # NoError THEN Result(<<<<>>, <<>>>>, locked.err)
          ELSE Result(<<unlocked.val, locked.val>>, NoError)

\* collection.SearchItems: the remote side returns one list, here the items
\* up to position k
CollectionSearchItems(reply, k, bad) ==
  IF reply = "error" THEN Result(<<>>, "transport")
  ELSE IF reply = "badshape" THEN Result(<<>>, "invalid type")
  ELSE ResolveItems(SubSeq(Ids(items), 1, k), bad, 1, <<>>)

\* labels the remote entities carry, and the names looked up
Labels == {"a", "A"}
Names == {"a", "A", "b"}
Lower(l) == IF l = "A" THEN "a" ELSE l

\* mutant: labels are compared without regard to case
LabelEqFold(l, name) == Lower(l) = Lower(name)

\* if l == name
LabelEq(l, name) == l = name

\* for _, i := range all { l, err := i.GetLabel(); if err != nil { return nil,
\* err }; if l == name { return i, nil } }: the label read of identifier
\* `stale` fails (0: none); 0 is the nil handle
RECURSIVE Scan(_, _, _, _, _, _)
Scan(all, labels, name, stale, k, notFound) ==
  IF k > Len(all) THEN Result(0, notFound)
  ELSE IF all[k] = stale THEN Result(0, "transport")
  ELSE IF LabelEq(labels[all[k]], name) THEN Result(all[k], NoError)
  ELSE Scan(all, labels, name, stale, k + 1, notFound)

\* collection.GetItem(name)
CollectionGetItem(name, reply, bad, stale) ==
  LET all == GetAllItems(reply, bad)
  IN IF all.err # NoError THEN Result(0, all.err)
     ELSE Scan(all.val, items, name, stale, 1, "no such item")

\* service.GetCollection(name)
ServiceGetCollection(name, reply, bad, stale) ==
  LET all == GetAllCollections(reply, bad)
  IN IF all.err # NoError THEN Result(0, all.err)
     ELSE Scan(all.val, collections, name, stale, 1, "unknown collection")

Replies == {"error", "badshape", "ok"}

\* the remote enumeration an operation reads
Listing(op) ==
  IF op \in {"GetAllCollections", "ServiceGetCollection"} THEN collections ELSE items

\* an enumeration or search runs and returns
CallEnumerate(op, reply, k, bad) ==
  /\ ret.op = "none"
  /\ k \in 0..Len(items)
  /\ op \in {"GetAllItems", "GetAllCollections"} => k = 0
  \* inputs the call does not get to read are left at their defaults
  /\ bad \in 0..Len(Listing(op))
  /\ reply # "ok" => (k = 0 /\ bad = 0)
  /\ LET r == CASE op = "GetAllItems" -> GetAllItems(reply, bad)
                [] op = "GetAllCollections" -> GetAllCollections(reply, bad)
                [] op = "ServiceSearchItems" -> ServiceSearchItems(reply, k, bad)
                [] op = "CollectionSearchItems" -> CollectionSearchItems(reply, k, bad)
     IN ret' = Call(op, [reply |-> reply, k |-> k, bad |-> bad], r.val, r.err)
  /\ UNCHANGED <<promptVars, aliases, collections, items, secret, written>>

\* a lookup by label runs and returns
CallLookup(op, name, reply, bad, stale) ==
  /\ ret.op = "none"
  /\ bad \in 0..Len(Listing(op))
  /\ stale \in 0..Len(Listing(op))
  /\ reply # "ok" => bad = 0
  /\ bad # 0 => stale = 0
  /\ LET r == CASE op = "CollectionGetItem" -> CollectionGetItem(name, reply, bad, stale)
                [] op = "ServiceGetCollection" -> ServiceGetCollection(name, reply, bad, stale)
     IN ret' = Call(op, [name |-> name, reply |-> reply, bad |-> bad, stale |-> stale],
                    r.val, r.err)
  /\ UNCHANGED <<promptVars, aliases, collections, items, secret, written>>

\* the remote side gets one more collection, from this or another client,
\* between two calls of the caller
RemoteAddCollection(l) ==
  /\ ret.op = "none"
  /\ Len(collections) < MaxList
  /\ collections' = Append(collections, l)
  /\ UNCHANGED <<promptVars, aliases, items, secret, written, ret>>

(* ------------------------------- secrets ------------------------------ *)

Sessions == {"/session/1", "/session/2"}
Values == {"my-key", ""}
ContentTypes == {"text/plain", "application/octet-stream"}

\* mutant: the value and the content type change places
EnvelopeSwapped(session, value, contentType) ==
  Secret(session, "", contentType, value)

\* Secret{ContentType: contentType, Value: secret, Parameters: []byte(""),
\* Session: session}
Envelope(session, value, contentType) ==
  Secret(session, "", value, contentType)

\* the remote side keeps the value and the content type of a secret it is
\* sent, and returns them under the session of the reading call
Stored(sec) == Secret("", "", sec.value, sec.contentType)
Served(session) == Secret(session, secret.parameters, secret.value, secret.contentType)

\* item.SetSecret
CallSetSecret(session, value, contentType, reply) ==
  /\ ret.op = "none"
  /\ secret # NilSecret
  /\ LET sec == Envelope(session, value, contentType)
         in == [session |-> session, value |-> value,
                contentType |-> contentType, sent |-> sec]
     IN IF reply = "error"
          THEN /\ ret' = Call("SetSecret", in, "", "transport")
               /\ UNCHANGED <<secret, written>>
          ELSE /\ ret' = Call("SetSecret", in, "", NoError)
               /\ secret' = Stored(sec)
               /\ written' = Secret("", "", value, contentType)
  /\ UNCHANGED <<promptVars, aliases, collections, items>>

\* item.GetSecret
CallGetSecret(session, reply) ==
  /\ ret.op = "none"
  /\ secret = NilSecret => reply = "error"
  /\ ret' = IF reply = "error"
              THEN Call("GetSecret", [session |-> session], NilSecret, "transport")
            ELSE IF reply = "badshape"
              THEN Call("GetSecret", [session |-> session], NilSecret, "decode")
            ELSE Call("GetSecret", [session |-> session], Served(session), NoError)
  /\ UNCHANGED <<promptVars, aliases, collections, items, secret, written>>

\* mutant: a prompt identifier in the reply is driven like that of a
\* privileged operation
CreateItemDrivesPrompt(reply, first, second, labelOk) ==
  CASE reply = "error" ->
         [calls |-> <<"CreateItem">>, val |-> 0, err |-> "transport"]
    [] reply = "badlen" ->
         [calls |-> <<"CreateItem">>, val |-> 0, err |-> "expected 2 results"]
    [] reply = "badshape" ->
         [calls |-> <<"CreateItem">>, val |-> 0, err |-> "invalid type"]
    [] OTHER ->
         IF NeedsPrompt(second)
           THEN [calls |-> <<"CreateItem", "AddMatchSignal", "Prompt">>,
                 val |-> 0, err |-> "prompt dismissed"]
           ELSE LET h == GetItem(first, labelOk)
                IN [calls |-> <<"CreateItem", "Label">>,
                    val |-> IF h.err = NoError THEN h.val ELSE 0,
                    err |-> h.err]

\* collection.CreateItem on the reply (first, second) of the remote call:
\* the remote calls it makes and what it returns. call.Body[1] is never read.
CreateItem(reply, first, second, labelOk) ==
  CASE reply = "error" ->
         [calls |-> <<"CreateItem">>, val |-> 0, err |-> "transport"]
    [] reply = "badlen" ->
         [calls |-> <<"CreateItem">>, val |-> 0, err |-> "expected 2 results"]
    [] reply = "badshape" ->
         [calls |-> <<"CreateItem">>, val |-> 0, err |-> "invalid type"]
    [] OTHER ->
         LET h == GetItem(first, labelOk)
         IN [calls |-> <<"CreateItem", "Label">>,
             val |-> IF h.err = NoError THEN h.val ELSE 0,
             err |-> h.err]

\* collection.CreateItem against the remote store. The remote side either
\* creates the item with the secret sent and returns its identifier, or
\* defers the creation behind a prompt and returns "/" with the prompt's
\* identifier; no object at "/" is an item, so its label read fails.
CallCreateItem(session, label, value, contentType, reply, second, deferred, labelOk) ==
  /\ ret.op = "none"
  /\ reply # "ok" => (labelOk /\ second = NoPrompt /\ ~deferred)
  /\ deferred => (NeedsPrompt(second) /\ ~labelOk)
  /\ LET sec == Envelope(session, value, contentType)
         first == IF deferred THEN NullPath ELSE Len(items) + 1
         r == CreateItem(reply, first, second, labelOk)
         in == [session |-> session, label |-> label, value |-> value,
                contentType |-> contentType, sent |-> sec, reply |-> reply,
                labelOk |-> labelOk, second |-> second, deferred |-> deferred,
                had |-> Len(items), calls |-> r.calls]
     IN /\ ret' = Call("CreateItem", in, r.val, r.err)
        /\ IF reply = "ok" /\ ~deferred
             THEN /\ Len(items) < MaxList
                  /\ items' = Append(items, label)
                  /\ secret' = Stored(sec)
                  /\ written' = Secret("", "", value, contentType)
             ELSE UNCHANGED <<items, secret, written>>
  /\ UNCHANGED <<promptVars, aliases, collections>>

\* the caller has the result of its call and goes on
Return ==
  /\ ret.op # "none"
  /\ ret' = NoCall
  /\ UNCHANGED <<promptVars, aliases, collections, items, secret, written>>

\* DefaultCollection = SecretServicePath + "/aliases/default"
DefaultCollection == "/org/freedesktop/secrets/aliases/default"

\* service.GetDefaultCollection
CallGetDefaultCollection(labelOk) ==
  /\ ret.op = "none"
  /\ LET r == GetCollection(DefaultCollection, labelOk)
     IN ret' = Call("GetDefaultCollection", [labelOk |-> labelOk], r.val, r.err)
  /\ UNCHANGED <<promptVars, aliases, collections, items, secret, written>>

EnumOps == {"GetAllItems", "GetAllCollections", "ServiceSearchItems",
            "CollectionSearchItems"}
LookupOps == {"CollectionGetItem", "ServiceGetCollection"}

QueryNext ==
  \/ \E name \in AliasNames, reply \in Replies : CallReadAlias(name, reply)
  \/ \E name \in AliasNames, p \in CollectionPaths \cup {NullPath},
        reply \in {"error", "ok"} : CallSetAlias(name, p, reply)
  \/ \E name \in AliasNames, reply \in {"error", "ok"} :
       CallRemoveAlias(name, reply)
  \/ \E op \in EnumOps, reply \in Replies, k \in 0..MaxList, bad \in 0..MaxList :
       CallEnumerate(op, reply, k, bad)
  \/ \E op \in LookupOps, name \in Names, reply \in Replies :
       \E bad \in 0..MaxList, stale \in 0..MaxList :
         CallLookup(op, name, reply, bad, stale)
  \/ \E l \in Labels : RemoteAddCollection(l)
  \/ \E labelOk \in BOOLEAN : CallGetDefaultCollection(labelOk)
  \/ Return
  \/ \E session \in Sessions, value \in Values, contentType \in ContentTypes,
        reply \in {"error", "ok"} :
       CallSetSecret(session, value, contentType, reply)
  \/ \E session \in Sessions, reply \in Replies : CallGetSecret(session, reply)
  \/ \E session \in Sessions, label \in Labels, value \in Values :
       \E contentType \in ContentTypes, labelOk \in BOOLEAN,
          reply \in {"error", "badlen", "badshape", "ok"},
          second \in {NoPrompt, PromptNames[1]}, deferred \in BOOLEAN :
         CallCreateItem(session, label, value, contentType, reply, second,
                        deferred, labelOk)

\* the queries and secret operations against the remote store, no privileged
\* operation in progress
QuerySpec == Init /\ [][QueryNext]_vars

(* ------------------------------ the claims ---------------------------- *)

Subscribed(c) == path[c] \in matchRules /\ c \in signals /\ lpc[c] # "none"

\* C1: whenever a privileged operation's begin call is accepted (the caller
\* moves on to wait for the completion), the match rule of its prompt has
\* been added and its signal channel is registered on the connection.
C1_SubscribedBeforeBegin ==
  [][\A c \in Callers :
       (pc[c] # "waiting" /\ pc'[c] = "waiting") => Subscribed(c)]_vars

C1_Witness ==
  \E c \in Callers :
    pc[c] = "waiting" /\ promptState[path[c]] = "begun" /\ Subscribed(c)

\* C2: an operation whose trigger call returned the sentinel "/" has returned
\* the primary result at once: no match rule, no registered channel, no
\* listener, no begin call.
C2_SentinelNoSubscription ==
  \A c \in Callers :
    path[c] = NoPrompt =>
      /\ pc[c] = "done"
      /\ lpc[c] = "none"
      /\ c \notin signals
      /\ NoPrompt \notin matchRules
      /\ nSent[c] = 0
      /\ \A o \in Ops : outcome[c][o] \in {Direct(o, TRUE), Direct(o, FALSE)}

C2_Witness ==
  \E c \in Callers :
    /\ path[c] = NoPrompt
    /\ pc[c] = "done"
    /\ outcome[c]["CreateCollection"] = Result(Primary("CreateCollection"), NoError)
    /\ outcome[c]["ItemDelete"] = Result(NoValue, NoError)

\* the listener of c takes the signal at the head of its channel
Takes(c) ==
  lpc[c] = "loop" /\ sigBuf[c] # <<>> /\ sigBuf'[c] = Tail(sigBuf[c])

\* C3: a waiter skips every signal whose source is not its prompt and keeps
\* waiting, and what it hands over is decoded from the completion event of
\* its own prompt, whatever the order the events of other prompts arrive in.
C3_FilterByIdentity ==
  /\ [][\A c \in Callers :
          (Takes(c) /\ Head(sigBuf[c]).path # path[c]) =>
            (lpc'[c] = "loop" /\ ch'[c] = ch[c] /\ res'[c] = res[c]
               /\ nSent'[c] = nSent[c])]_vars
  /\ [](\A c \in Callers :
          res[c] # Nil =>
            /\ res[c] = promptBody[path[c]]
            /\ nSent[c] = 1)

\* the waiter has a signal of another process's prompt at the head of its
\* channel while the events of its own and of the other caller's prompt wait
C3_Witness ==
  \E c \in Callers :
    /\ lpc[c] = "loop"
    /\ sigBuf[c] # <<>>
    /\ Head(sigBuf[c]).path = ForeignId
    /\ \E s \in sigPend[c] : s.path = path[c]
    /\ \E s \in sigPend[c] : s.path \notin {path[c], ForeignId}

\* C4: when the completion event of the caller's prompt said dismissed=true,
\* every privileged operation returns the prompt-dismissed error and no
\* value decoded from the event.
C4_DismissedYieldsPromptDismissed ==
  \A c \in Callers :
    (pc[c] = "done" /\ StoreOk(res[c]) /\ res[c][1]) =>
      \A o \in Ops :
        /\ IsPromptDismissed(outcome[c][o].err)
        /\ outcome[c][o].val \in {NoValue, Primary(o)}

C4_Witness ==
  \E c \in Callers :
    /\ pc[c] = "done"
    /\ res[c] = <<TRUE, "other">>
    /\ outcome[c]["ItemDelete"] = Result(NoValue, "prompt dismissed")
    /\ outcome[c]["CollectionDelete"] = Result(NoValue, "prompted dismissed")

\* the caller received the one value its listener sent
Received(c) == pc[c] = "done" /\ nSent[c] = 1 /\ ch[c] = <<>>

\* C5: a caller released because the event stream was closed before any
\* matching event (the listener's loop ended with res still nil) gets an
\* error that is not the prompt-dismissed one.
C5_ClosedStreamIsNotDismissal ==
  \A c \in Callers :
    (Received(c) /\ res[c] = Nil) =>
      \A o \in Ops :
        outcome[c][o].err # NoError /\ ~IsPromptDismissed(outcome[c][o].err)

\* C6: a caller whose matching completion event could not be decoded as
\* (dismissed, result) gets an error that is not the prompt-dismissed one.
C6_DecodeErrorIsNotDismissal ==
  \A c \in Callers :
    (Received(c) /\ res[c] = Malformed) =>
      \A o \in Ops :
        outcome[c][o].err # NoError /\ ~IsPromptDismissed(outcome[c][o].err)

\* the public call returned after waiting on the result channel
ReturnedFromWait(c) ==
  pc[c] = "done" /\ path[c] \in PromptIds /\ outcome[c] # [o \in Ops |-> TransportError(o)]

\* C7: a listener sends on its result channel exactly once, when it leaves
\* its loop (match, dismissal, decode failure or closed stream) and never
\* again, whatever signals arrive later; a caller that waited received that
\* one value.
C7_ExactlyOnceHandOff ==
  \A c \in Callers :
    /\ nSent[c] <= 1
    /\ Len(ch[c]) <= nSent[c]
    /\ lpc[c] \in {"remove", "close", "done"} <=> nSent[c] = 1
    /\ ReturnedFromWait(c) => Received(c)

\* the value is handed over and the completion event of the same prompt sits
\* once more in the listener's channel
C7_Witness ==
  \E c \in Callers :
    /\ nSent[c] = 1
    /\ lpc[c] = "remove"
    /\ sigBuf[c] # <<>>
    /\ Head(sigBuf[c]) = Signal(path[c], promptBody[path[c]])

\* C8: when the public call has returned, the listener it started has ended,
\* cleanup included.
C8_ListenerEndsBeforeReturn ==
  \A c \in Callers : pc[c] = "done" => lpc[c] \in {"none", "done"}

\* what operation o may return for a completion event with body b
FromEvent(o, b) == {AfterPrompt(o, ChanValue(b), l) : l \in BOOLEAN}

\* C9: of two callers with listeners on the shared connection, each one,
\* while the stream is open, hands over and returns what the completion event
\* of its own prompt says; the other's event neither ends its loop nor
\* reaches its caller.
C9_ConcurrentWaitersIndependent ==
  \A c, d \in Callers :
    (c # d /\ lpc[d] # "none" /\ nSent[c] = 1 /\ ~connClosed) =>
      /\ res[c] # Nil
      /\ res[c] = promptBody[path[c]]
      /\ Received(c) => \A o \in Ops : outcome[c][o] \in FromEvent(o, res[c])

\* both callers returned on the open connection, each after a listener of its
\* own: one dismissed and one completed
C9_Witness ==
  \E c, d \in Callers :
    /\ c # d
    /\ ~connClosed
    /\ Received(c) /\ Received(d)
    /\ res[c] = <<TRUE, "other">>
    /\ res[d] = <<FALSE, "objpath">>
    /\ outcome[c]["Lock"] = Result(Primary("Lock"), "prompt dismissed")
    /\ outcome[d]["CreateCollection"] = Result("deliveredPath", NoError)

\* C10: the remote side emits a prompt's completion event only when the
\* prompt's match rule exists and the waiter's channel is registered; and
\* once it is emitted for a waiting caller, that caller eventually returns
\* with what the event says, unless the connection is closed first.
C10_NoMissedCompletion ==
  /\ [][\A p \in PromptIds :
          (promptState[p] # "completed" /\ promptState'[p] = "completed") =>
            (p \in matchRules /\ \E c \in signals : path[c] = p)]_vars
  /\ \A c \in Callers :
       (pc[c] = "waiting" /\ promptState[PromptOf(c)] = "completed")
         ~> \/ connClosed
            \/ /\ Received(c)
               /\ \A o \in Ops :
                    outcome[c][o] \in FromEvent(o, promptBody[PromptOf(c)])

C10_Witness ==
  \E c \in Callers :
    /\ ~connClosed
    /\ Received(c)
    /\ promptState[PromptOf(c)] = "completed"
    /\ promptBody[PromptOf(c)] = <<FALSE, "objpath">>
    /\ outcome[c]["CreateCollection"] = Result("deliveredPath", NoError)

\* C10 as first stated, without the exception for a closed connection: a
\* caller that waited and returned after its prompt's completion event was
\* emitted returned what that event says.
C10_AsStated ==
  \A c \in Callers :
    (Received(c) /\ promptState[PromptOf(c)] = "completed") =>
      \A o \in Ops : outcome[c][o] \in FromEvent(o, promptBody[PromptOf(c)])

\* C11: once the wait of a privileged operation has ended (the public call
\* returned and its listener finished its cleanup), neither the wait's signal
\* channel nor the match rule of its prompt is left on the connection.
C11_SubscriptionReleased ==
  \A c \in Callers :
    (pc[c] = "done" /\ lpc[c] = "done") =>
      (c \notin signals /\ path[c] \notin matchRules)

Deletes == {"ItemDelete", "CollectionDelete"}

\* the completion event the listener took said dismissed=false
Accepted(c) == StoreOk(res[c]) /\ ~res[c][1]

\* C12: Item.Delete and Collection.Delete return no error exactly when the
\* trigger call succeeded and either returned the sentinel or the prompt's
\* completion event arrived with dismissed=false, whatever value it carried.
C12_DeleteSucceedsIffNoPromptOrAccepted ==
  \A c \in Callers :
    pc[c] = "done" =>
      \A o \in Deletes :
        /\ outcome[c][o].val = NoValue
        /\ outcome[c][o].err = NoError <=>
             (path[c] = NoPrompt \/ (Received(c) /\ Accepted(c)))

\* one delete went through without a prompt, the other after a completion
\* event whose result is not an object path
C12_Witness ==
  \E c, d \in Callers :
    /\ pc[c] = "done" /\ path[c] = NoPrompt
    /\ Received(d) /\ res[d] = <<FALSE, "other">>
    /\ \A o \in Deletes :
         outcome[c][o].err = NoError /\ outcome[d][o].err = NoError

\* C13: a handle Service.CreateCollection returns is for the trigger call's
\* primary path when no prompt was needed, and for the path delivered by the
\* completion event when a prompt was needed; never for the primary path in
\* the prompt case.
C13_CreateCollectionIdentifier ==
  \A c \in Callers :
    (pc[c] = "done" /\ outcome[c]["CreateCollection"].err = NoError) =>
      \/ /\ path[c] = NoPrompt
         /\ outcome[c]["CreateCollection"].val = Primary("CreateCollection")
      \/ /\ path[c] \in PromptIds
         /\ Received(c)
         /\ res[c] = <<FALSE, "objpath">>
         /\ outcome[c]["CreateCollection"].val = "deliveredPath"

C13_Witness ==
  \E c, d \in Callers :
    /\ pc[c] = "done" /\ path[c] = NoPrompt
    /\ outcome[c]["CreateCollection"] = Result("primaryPath", NoError)
    /\ Received(d) /\ path[d] \in PromptIds
    /\ outcome[d]["CreateCollection"] = Result("deliveredPath", NoError)

\* C14: when the prompt of Service.Lock or Service.Unlock completed with
\* dismissed=false, the list returned is the one the completion event
\* delivered.
C14_LockListFromEvent ==
  \A c \in Callers :
    (Received(c) /\ Accepted(c)) =>
      \A o \in {"Lock", "Unlock"} :
        outcome[c][o] = Result("deliveredList", NoError)

\* the remote side performs the operation a prompt guards when the prompt
\* completes with dismissed=false
Applied(p) ==
  promptState[p] = "completed" /\ StoreOk(promptBody[p]) /\ ~promptBody[p][1]

\* C15: an operation that ended with the prompt-dismissed error has had no
\* effect on the remote side.
C15_NoPartialApplication ==
  \A c \in Callers :
    (pc[c] = "done" /\ path[c] \in PromptIds) =>
      \A o \in Ops :
        IsPromptDismissed(outcome[c][o].err) => ~Applied(path[c])

\* C16: an operation that ended with an error, the prompt-dismissed one
\* included, returned no result value with it.
C16_NoValueWithError ==
  \A c \in Callers :
    pc[c] = "done" =>
      \A o \in Ops :
        outcome[c][o].err # NoError => outcome[c][o].val = NoValue

\* C17: ReadAlias fails with "unknown alias" exactly when the remote call
\* succeeded and resolved the alias to "/"; any other resolved identifier is
\* returned with no error.
C17_ReadAliasNotFound ==
  ret.op = "ReadAlias" =>
    LET resolved == ret.in.reply = "ok"
        target == aliases[ret.in.name]
    IN /\ ret.err = "unknown alias" <=> (resolved /\ target = NullPath)
       /\ (resolved /\ target # NullPath) => (ret.val = target /\ ret.err = NoError)
       /\ ret.err = NoError => (resolved /\ ret.val = target /\ target # NullPath)

\* an alias the remote side resolves to "/" was read
C17_Witness ==
  /\ ret.op = "ReadAlias"
  /\ ret.in.reply = "ok"
  /\ aliases[ret.in.name] = NullPath
  /\ ret.val = NullPath
  /\ ret.err = "unknown alias"

NotFound(op) ==
  IF op = "ServiceGetCollection" THEN "unknown collection" ELSE "no such item"

\* C18: a lookup by label whose reads all succeed returns the first entity,
\* in the order of the remote enumeration as it is at the call, whose label
\* is exactly the name asked for, and fails with its not-found error exactly
\* when no entity has that label.
C18_LookupFirstExactMatch ==
  ret.op \in LookupOps =>
    LET list == Listing(ret.op)
        name == ret.in.name
        readsOk == ret.in.reply = "ok" /\ ret.in.bad = 0
        hits == {i \in 1..Len(list) : list[i] = name}
    IN /\ ret.err = NoError =>
            /\ readsOk
            /\ ret.val \in hits
            /\ \A i \in hits : ret.val <= i
       /\ ret.err = NotFound(ret.op) <=>
            (readsOk /\ hits = {} /\ ret.in.stale = 0)
       /\ (readsOk /\ ret.in.stale = 0 /\ hits # {}) => ret.err = NoError

\* the second collection is found under "A" past a first one labelled "a"
C18_Witness ==
  /\ ret.op = "ServiceGetCollection"
  /\ collections = <<"a", "A">>
  /\ ret.in.name = "A"
  /\ ret.val = 2
  /\ ret.err = NoError

\* the identifiers an enumeration or search has to resolve
Requested(r) ==
  IF r.op = "CollectionSearchItems" THEN 1..r.in.k ELSE 1..Len(Listing(r.op))

NoHandles(op) == IF op = "ServiceSearchItems" THEN <<<<>>, <<>>>> ELSE <<>>

\* C19: an enumeration or search in which one identifier does not resolve
\* fails and returns no handle at all; when all resolve it returns them all.
C19_EnumerationAllOrNothing ==
  ret.op \in EnumOps =>
    /\ ret.err # NoError => ret.val = NoHandles(ret.op)
    /\ (ret.in.reply = "ok" /\ ret.in.bad \in Requested(ret)) =>
         (ret.err = "transport" /\ ret.val = NoHandles(ret.op))
    /\ (ret.in.reply = "ok" /\ ret.in.bad \notin Requested(ret)) =>
         /\ ret.err = NoError
         /\ ret.op = "ServiceSearchItems" =>
              ret.val[1] \o ret.val[2] = Ids(items)
         /\ ret.op = "CollectionSearchItems" =>
              ret.val = SubSeq(Ids(items), 1, ret.in.k)
         /\ ret.op \in {"GetAllItems", "GetAllCollections"} =>
              ret.val = Ids(Listing(ret.op))

\* the second of two items fails to resolve after the first one resolved
C19_Witness ==
  /\ ret.op = "GetAllItems"
  /\ Len(items) = 2
  /\ ret.in.reply = "ok"
  /\ ret.in.bad = 2
  /\ ret.err = "transport"

\* C20: the envelope of SetSecret and CreateItem carries the session given,
\* empty parameters, and the value and content type as given; and GetSecret
\* returns the value and content type of the last successful write.
C20_SecretRoundTrip ==
  /\ ret.op \in {"SetSecret", "CreateItem"} =>
       ret.in.sent = Secret(ret.in.session, "", ret.in.value, ret.in.contentType)
  /\ (ret.op = "SetSecret" /\ ret.err = NoError) =>
       (written.value = ret.in.value /\ written.contentType = ret.in.contentType)
  /\ (ret.op = "GetSecret" /\ ret.err = NoError) =>
       /\ ret.val.session = ret.in.session
       /\ ret.val.value = written.value
       /\ ret.val.contentType = written.contentType

\* "my-key" written as text/plain under one session is read back under the
\* other
C20_Witness ==
  /\ ret.op = "GetSecret"
  /\ ret.err = NoError
  /\ ret.in.session = "/session/2"
  /\ ret.val.value = "my-key"
  /\ ret.val.contentType = "text/plain"
  /\ written = Secret("", "", "my-key", "text/plain")

\* C21: a privileged operation issues its trigger call at most once, and one
\* whose trigger call failed has returned that error with no match rule, no
\* registered channel, no listener and no begin call.
C21_TriggerFailureSurfaced ==
  \A c \in Callers :
    /\ Len(trigger[c]) <= 1
    /\ trigger[c] = <<"error">> =>
         /\ pc[c] = "done"
         /\ \A o \in Ops : outcome[c][o] = TransportError(o)
         /\ path[c] = "none"
         /\ lpc[c] = "none"
         /\ c \notin signals
         /\ nSent[c] = 0
         /\ PromptOf(c) \notin matchRules
         /\ promptState[PromptOf(c)] = "free"

\* the trigger call failed on an open connection
C21_Witness ==
  \E c \in Callers : trigger[c] = <<"error">> /\ ~connClosed /\ pc[c] = "done"

\* C22: RemoveAlias(name) issues the one remote call SetAlias(name, "/"), and
\* after it succeeded the alias resolves to "/", which ReadAlias reports as
\* "unknown alias".
C22_RemoveAliasIsSetAliasNull ==
  ret.op = "RemoveAlias" =>
    /\ ret.in.calls = <<SetAliasCall(ret.in.name, NullPath)>>
    /\ ret.err = NoError =>
         /\ aliases[ret.in.name] = NullPath
         /\ ReadAlias("ok", aliases[ret.in.name]) =
              Result(NullPath, "unknown alias")

\* an alias that had been set was removed
C22_Witness ==
  /\ ret.op = "RemoveAlias"
  /\ ret.err = NoError
  /\ ret.in.was \in CollectionPaths
  /\ aliases[ret.in.name] = NullPath

\* the listener goroutine of c exists
Live(c) == lpc[c] \in {"loop", "remove", "close"}

\* C23: no two live listeners wait for the same prompt identifier, and a
\* call starts a listener at most once, given that the remote side hands
\* every concurrent call a prompt identifier of its own.
C23_OneWaiterPerPrompt ==
  /\ [](\A c, d \in Callers :
          (c # d /\ Live(c) /\ Live(d)) => path[c] # path[d])
  /\ [][\A c \in Callers :
          (lpc'[c] = "loop" /\ lpc[c] # "loop") => lpc[c] = "none"]_vars

\* two listeners are live at once, each on its own prompt
C23_Witness ==
  \E c, d \in Callers :
    /\ c # d
    /\ lpc[c] = "loop" /\ lpc[d] = "loop"
    /\ path[c] = PromptOf(c) /\ path[d] = PromptOf(d)
    /\ {c, d} \subseteq signals

\* C24: a listener, a registered channel and a begun prompt exist only for a
\* prompt whose match rule was added; a call whose match rule could not be
\* added has returned the transport error with none of them.
C24_NoSubscriptionNoBegin ==
  \A c \in Callers :
    path[c] \in PromptIds =>
      /\ (lpc[c] # "none" \/ c \in signals \/ nSent[c] > 0
            \/ pc[c] \in {"matched", "registered", "waiting"}
            \/ promptState[path[c]] \in {"begun", "completed"}) =>
           path[c] \in matchRules
      /\ (pc[c] = "done" /\ path[c] \notin matchRules) =>
           /\ \A o \in Ops : outcome[c][o] = TransportError(o)
           /\ promptState[path[c]] = "pending"

\* adding the match rule failed on an open connection
C24_Witness ==
  \E c \in Callers :
    /\ pc[c] = "done"
    /\ path[c] \in PromptIds
    /\ path[c] \notin matchRules
    /\ ~connClosed
    /\ outcome[c]["Unlock"] = TransportError("Unlock")

\* the handles an enumeration or search returned
Handles(r) ==
  LET all == IF r.op = "ServiceSearchItems" THEN r.val[1] \o r.val[2] ELSE r.val
  IN {all[i] : i \in 1..Len(all)}

C26_CreateCollectionTypeMismatch ==
  \A c \in Callers :
    (Received(c) /\ res[c] = <<FALSE, "other">>) =>
      outcome[c]["CreateCollection"] = Result(NoValue, "invalid type")

C26_Witness ==
  \E c \in Callers :
    /\ Received(c)
    /\ ~connClosed
    /\ promptBody[path[c]] = <<FALSE, "other">>
    /\ res[c] = <<FALSE, "other">>
    /\ outcome[c]["CreateCollection"].err = "invalid type"

\* C27: a caller whose begin call succeeded leaves its wait only after its
\* listener took the completion event of its own prompt or the event stream
\* was closed; until then it is blocked with nothing to receive, whatever
\* events of other prompts arrive.
C27_NoTimeout ==
  /\ [][\A c \in Callers :
          (pc[c] = "waiting" /\ pc'[c] # "waiting") =>
            (res[c] # Nil \/ sigClosed[c])]_vars
  /\ [](\A c \in Callers :
          (pc[c] = "waiting" /\ promptState[path[c]] = "begun" /\ ~sigClosed[c]) =>
            (ch[c] = <<>> /\ nSent[c] = 0 /\ lpc[c] = "loop"))

\* the events of other prompts have all arrived and been skipped, and the
\* caller still waits
C27_Witness ==
  \E c \in Callers :
    /\ pc[c] = "waiting"
    /\ promptState[path[c]] = "begun"
    /\ ~connClosed
    /\ nExtra = MaxExtra
    /\ sigBuf[c] = <<>> /\ sigPend[c] = {}
    /\ lpc[c] = "loop"

\* C28: the listener never closes a signal channel that is already closed.
C28_ChannelClosedOnce ==
  [][\A c \in Callers :
       (lpc[c] = "close" /\ lpc'[c] = "done") => ~sigClosed[c]]_vars

\* C29: a signal channel is closed by its listener only after it has been
\* deregistered, so a closed channel is neither registered on the connection
\* nor the target of a delivery the transport still holds.
C29_DeregisteredBeforeClosed ==
  /\ [][\A c \in Callers :
          (lpc[c] = "close" /\ lpc'[c] = "done") =>
            (c \notin signals /\ sigPend[c] = {})]_vars
  /\ [](\A c \in Callers :
          sigClosed[c] => (c \notin signals /\ sigPend[c] = {}))

\* the listener closed its channel on the open connection after a further
\* event had arrived behind the matching one
C29_Witness ==
  \E c \in Callers :
    /\ lpc[c] = "done"
    /\ sigClosed[c]
    /\ ~connClosed
    /\ ~panicked
    /\ nExtra > 0
    /\ res[c] # Nil

\* C30: the listener's one send finds room in the result channel, so that a
\* listener whose own event was emitted or whose channel was closed always
\* leaves its loop and runs its cleanup to the end (which, on a closed
\* channel, is the panic of C28), also when the caller has returned without
\* the channel because the begin call failed.
C30_HandOffNeverBlocks ==
  /\ [](\A c \in Callers : lpc[c] = "loop" => Len(ch[c]) < ChCap)
  /\ [](\A c \in Callers : nSent[c] <= ChCap)
  /\ \A c \in Callers :
       (lpc[c] = "loop" /\ (sigClosed[c] \/ promptState[path[c]] = "completed"))
         ~> (lpc[c] = "done" \/ panicked)

\* the begin call failed, the caller returned its error, and the listener
\* has sent the value no one will receive and gone on
C30_Witness ==
  \E c \in Callers :
    /\ pc[c] = "done"
    /\ \A o \in Ops : outcome[c][o] = TransportError(o)
    /\ nSent[c] = 1
    /\ ch[c] = <<Nil>>
    /\ lpc[c] \in {"remove", "close", "done"}

C32_UnlockTrueOnlyWhenUnlocked ==
  \A c \in Callers :
    pc[c] = "done" =>
      LET u == outcome[c]["Unlock"]
          r == ItemUnlock(u)
      IN /\ r.val => (c \in handled \/ (path[c] \in PromptIds /\ Applied(path[c])))
         /\ u.err # NoError => r = Result(FALSE, u.err)

====
